---- MODULE Spec2Model ----
(***************************************************************************)
(* Threads::RefCountedArray (Threads/RefCountedArray.h): a fixed-size      *)
(* array shared by several handles through a reference-counted header,     *)
(* with copy-on-write unsharing.                                           *)
(*                                                                         *)
(* Blocks (Header objects) are numbered 1..MaxBlocks in allocation order   *)
(* and a number is never handed out twice, so a pointer to a destroyed     *)
(* block stays recognisable.  The null pointer is 0.  Handles              *)
(* (RefCountedArray objects) are numbered 1..MaxHandles in construction    *)
(* order.  Handles and blocks together never number more than MaxObjects;  *)
(* an allocation may fail at any time, and fails when memory is used up.   *)
(*                                                                         *)
(* A member function is split into steps at each access to the atomic      *)
(* counter and at each call of create()/destroy().  At most MaxThreads     *)
(* member functions run at a time, interleaved step by step.  A handle     *)
(* object itself is not atomic, so a function that writes a handle's       *)
(* header pointer only runs while no other function is using that handle   *)
(* (Busy / Reading below): the call in progress is therefore recorded per  *)
(* handle, under its `this`.                                               *)
(***************************************************************************)
EXTENDS Integers, Sequences, FiniteSets

MaxThreads == 2
MaxHandles == 3
MaxBlocks == 3
MaxSize == 2
MaxVal == 1
\* Handles and blocks come out of one memory: the number of objects (handles
\* constructed plus blocks allocated) it can hold.
MaxObjects == 5

Handles == 1..MaxHandles
Blocks == 1..MaxBlocks
Values == 0..MaxVal

\* Value of a default-constructed Element (create() default-constructs).
DefaultElement == 0

VARIABLES
    hstate,     \* handle -> "none" | "constructing" | "live" | "dead"
    header,     \* handle -> RefCountedArray::header (0 = null)
    bstate,     \* block -> "free" | "live" | "destroyed"
    refCount,   \* block -> Header::refCount
    size,       \* block -> Header::size
    elements,   \* block -> Header::elements
    orphaned,   \* block -> number of unref() calls on it that returned true
    destroys,   \* block -> number of destroy() calls on it
    call        \* handle -> the member function running on it

vars == <<hstate, header, bstate, refCount, size, elements, orphaned, destroys, call>>
handleVars == <<hstate, header>>
blockVars == <<bstate, refCount, size, elements, orphaned, destroys>>

\* pc: where the function is; s: its source argument; p: a local Header
\* pointer (newHeader before the swap in modify(), the old header after
\* it); i, v: the arguments of set() (i = 0 for a plain modify()); pre:
\* the elements seen when set() was called (history, read by no action).
Idle == [pc |-> "idle", s |-> 0, p |-> 0, i |-> 0, v |-> 0, pre |-> <<>>]

----------------------------------------------------------------------------
(* Header *)

\* ref() that loses its increment.
RefValueLost(rc) == rc
\* Header::ref: refCount.preAdd(1)
RefValue(rc) == rc + 1

\* Header::unref: the value refCount.preSub(1) stores and returns.  The
\* counter is an unsigned int; it is modelled by the two's-complement
\* reading of its bit pattern, so that 0 - 1 is the pattern of UINT_MAX (-1).
UnrefValue(rc) == rc - 1

\* unref() that reports the orphaning one reference too early.
UnrefOrphanedEarly(rc) == UnrefValue(rc) <= 1
\* unref() that tests the value before the decrement (postSub for preSub).
UnrefOrphanedPost(rc) == rc = 0
\* Header::unref: "returns true if array has become orphaned"
UnrefOrphaned(rc) == UnrefValue(rc) = 0

\* A Header that drops the size it is given.
HeaderInitEmpty(sSize) == [refCount |-> 1, size |-> 0]
\* A Header constructed with no reference.
HeaderInitUnreferenced(sSize) == [refCount |-> 0, size |-> sSize]
\* Header::Header(sSize): a single reference, the given size.
HeaderInit(sSize) == [refCount |-> 1, size |-> sSize]

----------------------------------------------------------------------------
(* Scheduling *)

\* A member function is running on handle x.
Busy(x) == call[x].pc # "idle"
\* A running member function has handle x as its source argument.
Reading(x) == \E y \in Handles : Busy(y) /\ call[y].s = x
\* A thread is free to call a member function.
ThreadFree == Cardinality({x \in Handles : Busy(x)}) < MaxThreads
\* A member function that writes x.header may start on x.
CanWrite(x) == ThreadFree /\ hstate[x] = "live" /\ ~Busy(x) /\ ~Reading(x)
\* A member function may start with x as its source argument.
CanRead(x) == hstate[x] = "live" /\ ~Busy(x)

NoneHandles == {x \in Handles : hstate[x] = "none"}
FreeBlocks == {b \in Blocks : bstate[b] = "free"}
\* The handles constructed and the blocks allocated so far.
Constructed == {x \in Handles : hstate[x] # "none"}
Allocated == {b \in Blocks : bstate[b] # "free"}
\* Memory is left for n more objects.
MemoryLeft(n) == Cardinality(Constructed) + Cardinality(Allocated) + n <= MaxObjects
\* The slot of the next constructed handle / allocated block.
NextHandle == CHOOSE x \in NoneHandles : \A y \in NoneHandles : x <= y
NextBlock == CHOOSE b \in FreeBlocks : \A c \in FreeBlocks : b <= c

Init ==
    /\ hstate = [x \in Handles |-> "none"]
    /\ header = [x \in Handles |-> 0]
    /\ bstate = [b \in Blocks |-> "free"]
    /\ refCount = [b \in Blocks |-> 0]
    /\ size = [b \in Blocks |-> 0]
    /\ elements = [b \in Blocks |-> <<>>]
    /\ orphaned = [b \in Blocks |-> 0]
    /\ destroys = [b \in Blocks |-> 0]
    /\ call = [x \in Handles |-> Idle]

----------------------------------------------------------------------------
(* Storage block *)

\* create(newSize): allocates block b with a constructed Header and the
\* elements els (default-constructed, or copies made by modify()).
Create(b, newSize, els) ==
    /\ bstate' = [bstate EXCEPT ![b] = "live"]
    /\ refCount' = [refCount EXCEPT ![b] = HeaderInit(newSize).refCount]
    /\ size' = [size EXCEPT ![b] = HeaderInit(newSize).size]
    /\ elements' = [elements EXCEPT ![b] = els]
    /\ UNCHANGED <<orphaned, destroys>>

\* destroy(header): destructs the elements and releases the block.
Destroy(b) ==
    /\ bstate' = [bstate EXCEPT ![b] = "destroyed"]
    /\ elements' = [elements EXCEPT ![b] = <<>>]
    /\ destroys' = [destroys EXCEPT ![b] = @ + 1]
    /\ UNCHANGED <<refCount, size, orphaned>>

\* header->ref()
Ref(b) ==
    /\ refCount' = [refCount EXCEPT ![b] = RefValue(@)]
    /\ UNCHANGED <<bstate, size, elements, orphaned, destroys>>

\* header->unref(); the caller branches on UnrefOrphaned(refCount[b]).
Unref(b) ==
    /\ refCount' = [refCount EXCEPT ![b] = UnrefValue(@)]
    /\ orphaned' = [orphaned EXCEPT ![b] = IF UnrefOrphaned(refCount[b]) THEN @ + 1 ELSE @]
    /\ UNCHANGED <<bstate, size, elements, destroys>>

----------------------------------------------------------------------------
(* Constructors *)

\* RefCountedArray(void)
DefaultConstruct ==
    /\ ThreadFree
    /\ NoneHandles # {}
    /\ MemoryLeft(1)
    /\ hstate' = [hstate EXCEPT ![NextHandle] = "live"]
    /\ header' = [header EXCEPT ![NextHandle] = 0]
    /\ UNCHANGED <<blockVars, call>>

\* RefCountedArray(size_t sSize)
SizedConstruct(sSize) ==
    /\ ThreadFree
    /\ NoneHandles # {}
    /\ FreeBlocks # {}
    /\ MemoryLeft(2)
    /\ Create(NextBlock, sSize, [k \in 1..sSize |-> DefaultElement])
    /\ hstate' = [hstate EXCEPT ![NextHandle] = "live"]
    /\ header' = [header EXCEPT ![NextHandle] = NextBlock]
    /\ UNCHANGED call

\* RefCountedArray(const RefCountedArray& source): the initialiser
\* header(source.header)
CopyConstruct(s) ==
    /\ ThreadFree
    /\ NoneHandles # {}
    /\ MemoryLeft(1)
    /\ CanRead(s)
    /\ hstate' = [hstate EXCEPT ![NextHandle] = "constructing"]
    /\ header' = [header EXCEPT ![NextHandle] = header[s]]
    /\ call' = [call EXCEPT ![NextHandle] = [Idle EXCEPT !.pc = "copy_ref", !.s = s]]
    /\ UNCHANGED blockVars

\* A copy constructor that copies the pointer and takes no reference.
CopyRefSkip(x) ==
    /\ call[x].pc = "copy_ref"
    /\ hstate' = [hstate EXCEPT ![x] = "live"]
    /\ call' = [call EXCEPT ![x] = Idle]
    /\ UNCHANGED <<header, blockVars>>

\* ... its body: if(header!=0) header->ref();
CopyRef(x) ==
    /\ call[x].pc = "copy_ref"
    /\ IF header[x] # 0
          THEN Ref(header[x])
          ELSE UNCHANGED blockVars
    /\ hstate' = [hstate EXCEPT ![x] = "live"]
    /\ call' = [call EXCEPT ![x] = Idle]
    /\ UNCHANGED header

----------------------------------------------------------------------------
(* operator= *)

\* operator= without the test header!=source.header.
AssignBeginNaive(x, s) ==
    /\ CanWrite(x)
    /\ CanRead(s)
    /\ LET o == [Idle EXCEPT !.s = s]
       IN IF header[x] # 0
             THEN /\ Unref(header[x])
                  /\ call' = [call EXCEPT ![x] = [o EXCEPT !.pc =
                                IF UnrefOrphaned(refCount[header[x]])
                                   THEN "assign_destroy" ELSE "assign_adopt"]]
             ELSE /\ call' = [call EXCEPT ![x] = [o EXCEPT !.pc = "assign_adopt"]]
                  /\ UNCHANGED blockVars
    /\ UNCHANGED handleVars

\* operator= that references the source's block before it releases its own.
AssignBeginRefFirst(x, s) ==
    /\ CanWrite(x)
    /\ CanRead(s)
    /\ LET o == [Idle EXCEPT !.s = s]
       IN IF header[x] = header[s]
             THEN /\ call' = [call EXCEPT ![x] = [o EXCEPT !.pc = "assign_same"]]
                  /\ UNCHANGED blockVars
             ELSE /\ call' = [call EXCEPT ![x] = [o EXCEPT !.pc = "assign_adopt"]]
                  /\ IF header[s] # 0
                        THEN Ref(header[s])
                        ELSE UNCHANGED blockVars
    /\ UNCHANGED handleVars

\* if(header!=source.header) { if(header!=0&&header->unref()) ...
AssignBegin(x, s) ==
    /\ CanWrite(x)
    /\ CanRead(s)
    /\ LET o == [Idle EXCEPT !.s = s]
       IN IF header[x] = header[s]
             THEN /\ call' = [call EXCEPT ![x] = [o EXCEPT !.pc = "assign_same"]]
                  /\ UNCHANGED blockVars
             ELSE IF header[x] # 0
                     THEN /\ Unref(header[x])
                          /\ call' = [call EXCEPT ![x] = [o EXCEPT !.pc =
                                        IF UnrefOrphaned(refCount[header[x]])
                                           THEN "assign_destroy" ELSE "assign_adopt"]]
                     ELSE /\ call' = [call EXCEPT ![x] = [o EXCEPT !.pc = "assign_adopt"]]
                          /\ UNCHANGED blockVars
    /\ UNCHANGED handleVars

\* ... destroy(header);
AssignDestroy(x) ==
    /\ call[x].pc = "assign_destroy"
    /\ Destroy(header[x])
    /\ call' = [call EXCEPT ![x].pc = "assign_adopt"]
    /\ UNCHANGED handleVars

\* operator= that keeps its block pointer when the source is invalid.
AssignAdoptNonNull(x) ==
    /\ call[x].pc = "assign_adopt"
    /\ header' = [header EXCEPT ![x] = IF header[call[x].s] # 0
                                          THEN header[call[x].s] ELSE @]
    /\ call' = [call EXCEPT ![x].pc = "assign_ref"]
    /\ UNCHANGED <<hstate, blockVars>>

\* header=source.header;
AssignAdopt(x) ==
    /\ call[x].pc = "assign_adopt"
    /\ header' = [header EXCEPT ![x] = header[call[x].s]]
    /\ call' = [call EXCEPT ![x].pc = "assign_ref"]
    /\ UNCHANGED <<hstate, blockVars>>

\* operator= that adopts the source's block without referencing it.
AssignRefSkip(x) ==
    /\ call[x].pc = "assign_ref"
    /\ call' = [call EXCEPT ![x] = Idle]
    /\ UNCHANGED <<handleVars, blockVars>>

\* if(header!=0) header->ref(); } return *this;
AssignRef(x) ==
    /\ call[x].pc = "assign_ref"
    /\ IF header[x] # 0
          THEN Ref(header[x])
          ELSE UNCHANGED blockVars
    /\ call' = [call EXCEPT ![x] = Idle]
    /\ UNCHANGED handleVars

\* return *this; when header==source.header
AssignReturn(x) ==
    /\ call[x].pc = "assign_same"
    /\ call' = [call EXCEPT ![x] = Idle]
    /\ UNCHANGED <<handleVars, blockVars>>

----------------------------------------------------------------------------
(* ~RefCountedArray *)

\* A destructor that destroys the block whatever unref() returns.
DtorBeginAlways(x) ==
    /\ CanWrite(x)
    /\ IF header[x] # 0
          THEN /\ Unref(header[x])
               /\ call' = [call EXCEPT ![x] = [Idle EXCEPT !.pc = "dtor_destroy"]]
               /\ UNCHANGED hstate
          ELSE /\ hstate' = [hstate EXCEPT ![x] = "dead"]
               /\ UNCHANGED <<blockVars, call>>
    /\ UNCHANGED header

\* if(header!=0&&header->unref()) ...
DtorBegin(x) ==
    /\ CanWrite(x)
    /\ IF header[x] # 0
          THEN /\ Unref(header[x])
               /\ IF UnrefOrphaned(refCount[header[x]])
                     THEN /\ call' = [call EXCEPT ![x] = [Idle EXCEPT !.pc = "dtor_destroy"]]
                          /\ UNCHANGED hstate
                     ELSE /\ hstate' = [hstate EXCEPT ![x] = "dead"]
                          /\ UNCHANGED call
          ELSE /\ hstate' = [hstate EXCEPT ![x] = "dead"]
               /\ UNCHANGED <<blockVars, call>>
    /\ UNCHANGED header

\* ... destroy(header);
DtorDestroy(x) ==
    /\ call[x].pc = "dtor_destroy"
    /\ Destroy(header[x])
    /\ hstate' = [hstate EXCEPT ![x] = "dead"]
    /\ call' = [call EXCEPT ![x] = Idle]
    /\ UNCHANGED header

----------------------------------------------------------------------------
(* modify(), set() and the non-const accessors *)

\* modify() that copies whatever the count is.
ModifySharedAlways(rc) == TRUE
\* modify(): the block is reused only when its count is exactly 1.
ModifyShared(rc) == rc # 1

\* modify() returns to its caller: set() goes on to its assignment
\* (i # 0), a plain modify() is finished.
ModifyDone(o) == IF o.i # 0 THEN "set_write" ELSE "mod_ret"

\* modify(), entered from a call of modify() (i = 0) or of
\* set(index,newElement): the test of the reference count.  pre records
\* the elements the handle shows when set() is entered.
ModifyCheck(x, i, v) ==
    /\ LET o == [Idle EXCEPT !.i = i, !.v = v,
                             !.pre = IF i # 0 THEN elements[header[x]] ELSE <<>>]
       IN call' = [call EXCEPT ![x] =
                      IF ModifyShared(refCount[header[x]])
                         THEN [o EXCEPT !.pc = "mod_alloc"]
                         ELSE [o EXCEPT !.pc = ModifyDone(o)]]
    /\ UNCHANGED <<handleVars, blockVars>>

\* modify(): a new block of the same size, every element copied.
ModifyAlloc(x) ==
    /\ call[x].pc = "mod_alloc"
    /\ FreeBlocks # {}
    /\ MemoryLeft(1)
    /\ Create(NextBlock, size[header[x]], elements[header[x]])
    /\ call' = [call EXCEPT ![x].pc = "mod_release", ![x].p = NextBlock]
    /\ UNCHANGED handleVars

\* modify() whose allocation fails after the old block was released.
ModifyAllocFailReleased(x) ==
    /\ call[x].pc = "mod_alloc"
    /\ Unref(header[x])
    /\ call' = [call EXCEPT ![x] = Idle]
    /\ UNCHANGED handleVars

\* modify(): the allocation of the new block fails; the failure leaves
\* modify() (and the set() that called it) before anything was released.
ModifyAllocFail(x) ==
    /\ call[x].pc = "mod_alloc"
    /\ call' = [call EXCEPT ![x] = Idle]
    /\ UNCHANGED <<handleVars, blockVars>>

\* modify() that releases the old block without looking at what unref()
\* returns (it saw the block shared, so it expects other owners).
ModifyReleaseUnchecked(x) ==
    /\ call[x].pc = "mod_release"
    /\ header' = [header EXCEPT ![x] = call[x].p]
    /\ Unref(header[x])
    /\ call' = [call EXCEPT ![x].p = header[x], ![x].pc = ModifyDone(call[x])]
    /\ UNCHANGED hstate

\* modify() that releases the old block and keeps referencing it.
ModifyReleaseNoAdopt(x) ==
    /\ call[x].pc = "mod_release"
    /\ Unref(header[x])
    /\ call' = [call EXCEPT ![x].pc = ModifyDone(call[x])]
    /\ UNCHANGED handleVars

\* modify(): the new block is adopted and the old one released.
ModifyRelease(x) ==
    /\ call[x].pc = "mod_release"
    /\ header' = [header EXCEPT ![x] = call[x].p]
    /\ Unref(header[x])
    /\ call' = [call EXCEPT ![x].p = header[x],
                            ![x].pc = IF UnrefOrphaned(refCount[header[x]])
                                         THEN "mod_destroy" ELSE ModifyDone(call[x])]
    /\ UNCHANGED hstate

\* modify(): destroy(old header) when the release orphaned it.
ModifyDestroy(x) ==
    /\ call[x].pc = "mod_destroy"
    /\ Destroy(call[x].p)
    /\ call' = [call EXCEPT ![x].pc = ModifyDone(call[x])]
    /\ UNCHANGED handleVars

\* modify() returns to the caller that called it directly.
ModifyReturn(x) ==
    /\ call[x].pc = "mod_ret"
    /\ call' = [call EXCEPT ![x] = Idle]
    /\ UNCHANGED <<handleVars, blockVars>>

\* void modify(void), called on a valid handle (isValid() is its
\* precondition).
ModifyCall(x) ==
    /\ CanWrite(x)
    /\ header[x] # 0
    /\ ModifyCheck(x, 0, 0)

\* set() that does not call modify().
SetCallNoModify(x, i, v) ==
    /\ CanWrite(x)
    /\ header[x] # 0
    /\ i \in 1..size[header[x]]
    /\ call' = [call EXCEPT ![x] = [Idle EXCEPT !.pc = "set_write", !.i = i, !.v = v,
                                                !.pre = elements[header[x]]]]
    /\ UNCHANGED <<handleVars, blockVars>>

\* set(index,newElement): modify(); with index in range.
SetCall(x, i, v) ==
    /\ CanWrite(x)
    /\ header[x] # 0
    /\ i \in 1..size[header[x]]
    /\ ModifyCheck(x, i, v)

\* set() that writes through an elements pointer taken before modify().
SetWriteStale(x) ==
    /\ call[x].pc = "set_write"
    /\ LET b == IF call[x].p # 0 THEN call[x].p ELSE header[x]
       IN elements' = [elements EXCEPT ![b][call[x].i] = call[x].v]
    /\ call' = [call EXCEPT ![x] = Idle]
    /\ UNCHANGED <<handleVars, bstate, refCount, size, orphaned, destroys>>

\* set(): header->elements[index]=newElement;
SetWrite(x) ==
    /\ call[x].pc = "set_write"
    /\ elements' = [elements EXCEPT ![header[x]][call[x].i] = call[x].v]
    /\ call' = [call EXCEPT ![x] = Idle]
    /\ UNCHANGED <<handleVars, bstate, refCount, size, orphaned, destroys>>

\* A modify()/set() is running on a handle of block b, or has just left b
\* behind.
Unsharing(b) ==
    \E y \in Handles :
        /\ call[y].pc \in {"mod_alloc", "mod_release", "mod_destroy", "mod_ret", "set_write"}
        /\ (header[y] = b \/ call[y].p = b)

\* Element& operator[](size_t) and Element* getArray(void), written
\* through: header->elements[index] = v.  Neither calls modify().  The
\* write does not run while a modify() on a handle of the same block may
\* be reading the elements.
IndexWrite(x, i, v) ==
    /\ ThreadFree
    /\ hstate[x] = "live"
    /\ ~Busy(x)
    /\ header[x] # 0
    /\ bstate[header[x]] = "live"
    /\ ~Unsharing(header[x])
    /\ i \in 1..size[header[x]]
    /\ elements[header[x]][i] # v
    /\ elements' = [elements EXCEPT ![header[x]][i] = v]
    /\ UNCHANGED <<handleVars, bstate, refCount, size, orphaned, destroys, call>>

----------------------------------------------------------------------------
(* Read-only member functions.  Each is a single read; what it returns is  *)
(* the operator, the call is the action.                                   *)

\* bool isValid(void) const: return header!=0;
IsValid(x) == header[x] # 0
\* size_t getSize(void) const: return header->size;
GetSize(x) == size[header[x]]
\* const Element* getArray(void) const: return header->elements;
GetArray(x) == elements[header[x]]
\* const Element& operator[](size_t index) const: return header->elements[index];
Index(x, i) == elements[header[x]][i]

\* A const accessor may be called on x: no function is running on x and x
\* is valid (isValid() is the precondition of the accessors).
CanAccess(x) == ThreadFree /\ CanRead(x) /\ IsValid(x) /\ bstate[header[x]] = "live"

IsValidCall(x) ==
    /\ ThreadFree
    /\ CanRead(x)
    /\ IsValid(x) \in BOOLEAN
    /\ UNCHANGED vars

GetSizeCall(x) ==
    /\ CanAccess(x)
    /\ GetSize(x) \in 0..MaxSize
    /\ UNCHANGED vars

GetArrayCall(x) ==
    /\ CanAccess(x)
    /\ Len(GetArray(x)) = GetSize(x)
    /\ UNCHANGED vars

\* A const operator[] that unshares like the non-const accessors are said to.
IndexCallUnshares(x, i) ==
    /\ CanAccess(x)
    /\ ~Reading(x)
    /\ i \in 1..GetSize(x)
    /\ ModifyCheck(x, 0, 0)

IndexCall(x, i) ==
    /\ CanAccess(x)
    /\ i \in 1..GetSize(x)
    /\ Index(x, i) \in Values
    /\ UNCHANGED vars

----------------------------------------------------------------------------
Next ==
    \/ DefaultConstruct
    \/ \E n \in 0..MaxSize : SizedConstruct(n)
    \/ \E s \in Handles : CopyConstruct(s)
    \/ \E x \in Handles : CopyRef(x)
    \/ \E x, s \in Handles : AssignBegin(x, s)
    \/ \E x \in Handles : AssignDestroy(x)
    \/ \E x \in Handles : AssignAdopt(x)
    \/ \E x \in Handles : AssignRef(x)
    \/ \E x \in Handles : AssignReturn(x)
    \/ \E x \in Handles : DtorBegin(x)
    \/ \E x \in Handles : DtorDestroy(x)
    \/ \E x \in Handles : ModifyCall(x)
    \/ \E x \in Handles, i \in 1..MaxSize, v \in 1..MaxVal : SetCall(x, i, v)
    \/ \E x \in Handles : ModifyAlloc(x)
    \/ \E x \in Handles : ModifyAllocFail(x)
    \/ \E x \in Handles : ModifyRelease(x)
    \/ \E x \in Handles : ModifyDestroy(x)
    \/ \E x \in Handles : ModifyReturn(x)
    \/ \E x \in Handles : SetWrite(x)
    \/ \E x \in Handles, i \in 1..MaxSize, v \in Values : IndexWrite(x, i, v)
    \/ \E x \in Handles : IsValidCall(x)
    \/ \E x \in Handles : GetSizeCall(x)
    \/ \E x \in Handles : GetArrayCall(x)
    \/ \E x \in Handles, i \in 1..MaxSize : IndexCall(x, i)

Spec == Init /\ [][Next]_vars

----------------------------------------------------------------------------
(* Properties *)

\* No member function is in progress.
Quiescent == \A x \in Handles : ~Busy(x)
\* The live handles whose header pointer references block b.
Holders(b) == {x \in Handles : hstate[x] = "live" /\ header[x] = b}
\* Handle x can be read through: constructed, valid, no function running on it.
Readable(x) == hstate[x] = "live" /\ ~Busy(x) /\ header[x] # 0
\* A running function has decided to destroy block b and not yet done so.
DestroyPending(b) ==
    \E x \in Handles :
        \/ call[x].pc \in {"assign_destroy", "dtor_destroy"} /\ header[x] = b
        \/ call[x].pc = "mod_destroy" /\ call[x].p = b

\* C1: however copy constructions, assignments and destructions of handles
\* of one block interleave, at most one unref() on the block returns true,
\* it is the one that takes refCount to 0, destroy() runs on the block only
\* for that unref() and never twice, and once no function is running and no
\* handle references the block any more it has run exactly once.
C1_DestroyedExactlyOnce ==
    \A b \in Blocks :
        /\ orphaned[b] <= 1
        /\ destroys[b] <= orphaned[b]
        /\ orphaned[b] = 1 => refCount[b] = 0
        /\ destroys[b] < orphaned[b] => DestroyPending(b)
        /\ (bstate[b] # "free" /\ Quiescent /\ Holders(b) = {})
              => (orphaned[b] = 1 /\ destroys[b] = 1)

\* Two functions are releasing the same block at once: one unref() returned
\* false (its assignment goes on to adopt), the other returned true.
C1_Witness ==
    \E x, y \in Handles :
        /\ x # y
        /\ call[x].pc = "dtor_destroy"
        /\ call[y].pc = "assign_adopt"
        /\ header[y] = header[x]
        /\ orphaned[header[x]] = 1

\* C2: whenever no member function is in progress, the refCount of every
\* block that is allocated and not destroyed equals the number of live
\* handles whose header references it.
C2_RefCountIsHolders ==
    Quiescent =>
        \A b \in Blocks :
            bstate[b] = "live" => refCount[b] = Cardinality(Holders(b))

\* Quiescent, one block shared by two handles and another block held by a
\* third.
C2_Witness ==
    /\ Quiescent
    /\ \E b \in Blocks : bstate[b] = "live" /\ refCount[b] = 2 /\ Cardinality(Holders(b)) = 2
    /\ \E b \in Blocks : bstate[b] = "live" /\ refCount[b] = 1 /\ Cardinality(Holders(b)) = 1

\* C3: a destroyed block has refCount 0 (destroy() never runs on a block
\* whose count is above 0), and every handle that can be used (live, no
\* function running on it) references either nothing or a block that is
\* not destroyed and has refCount >= 1.
C3_NoUseAfterFree ==
    /\ \A b \in Blocks : bstate[b] = "destroyed" => refCount[b] = 0
    /\ \A x \in Handles :
          (hstate[x] = "live" /\ ~Busy(x) /\ header[x] # 0)
              => (bstate[header[x]] = "live" /\ refCount[header[x]] >= 1)

\* Three handles shared a block, two of them are destroyed, the survivor
\* is the block's only owner.
C3_Witness ==
    \E b \in Blocks :
        /\ Quiescent
        /\ bstate[b] = "live"
        /\ refCount[b] = 1
        /\ Cardinality({x \in Handles : header[x] = b /\ hstate[x] = "dead"}) = 2
        /\ Cardinality(Holders(b)) = 1

\* C4: once no handle is alive any more (and no function is running),
\* every block that was ever allocated has been destroyed.
C4_NoLeak ==
    (Quiescent /\ \A x \in Handles : hstate[x] # "live")
        => \A b \in Blocks : bstate[b] # "live"

\* Every handle was constructed and destroyed, and both the block of a
\* sized construction and the block of an unsharing copy are destroyed.
C4_Witness ==
    /\ Quiescent
    /\ \A x \in Handles : hstate[x] = "dead"
    /\ Cardinality({b \in Blocks : bstate[b] = "destroyed" /\ destroys[b] = 1}) = 2
    /\ \E x, y \in Handles : header[x] # 0 /\ header[y] # 0 /\ header[x] # header[y]

----------------------------------------------------------------------------
(* Properties of single steps.  Stepped(x): the function running on handle *)
(* x takes this step.                                                      *)

Stepped(x) == call'[x] # call[x]
AssignPcs == {"assign_same", "assign_destroy", "assign_adopt", "assign_ref"}
ModifyPcs == {"mod_alloc", "mod_release", "mod_destroy", "mod_ret", "set_write"}
\* The step is the element assignment of set() on x.
SetWrites(x) == call[x].pc = "set_write" /\ Stepped(x)
\* The step leaves what every other readable handle shows unchanged.
OthersUnchanged(x) ==
    \A a \in Handles \ {x} :
        Readable(a) => elements'[header[a]] = elements[header[a]]

\* C5 as stated: every mutating access (set(), non-const operator[] and
\* getArray()) unshares first, so a write through handle x never changes
\* an element shown by another handle.
C5_EveryMutatingAccessUnshares ==
    [][/\ \A x \in Handles : SetWrites(x) => OthersUnchanged(x)
       /\ \A x \in Handles, i \in 1..MaxSize, v \in Values :
             IndexWrite(x, i, v) => OthersUnchanged(x)]_vars

\* C5 amended: set() calls modify() first, so its write goes to a block no
\* other handle references and changes no element shown by another handle;
\* non-const operator[] and getArray() do not call modify(), and a write
\* through them leaves the other handles' elements unchanged when the
\* block's refCount is 1 (as it is after modify() on the handle).
C5_SetUnsharesAccessorsNeedModify ==
    [][/\ \A x \in Handles :
             SetWrites(x) =>
                /\ OthersUnchanged(x)
                /\ refCount[header[x]] = 1
                /\ \A a \in Handles \ {x} : Readable(a) => header[a] # header[x]
       /\ \A x \in Handles, i \in 1..MaxSize, v \in Values :
             (IndexWrite(x, i, v) /\ refCount[header[x]] = 1) => OthersUnchanged(x)]_vars

\* set() on x has unshared (p is the block left behind, still shown by
\* handle a) and is about to write into its own block.
C5_Witness ==
    \E x, a \in Handles :
        /\ x # a
        /\ call[x].pc = "set_write"
        /\ call[x].p # 0
        /\ Readable(a)
        /\ header[a] = call[x].p
        /\ header[x] # header[a]
        /\ size[header[a]] > 0

\* C6: the assignment that ends set(i, v) on handle x makes x's elements
\* the ones x showed when set() was called except that element i is v,
\* changes no element of any other block, and is made to a block that no
\* other handle references (when x shared a block, a different block from
\* the one left behind); the unsharing steps before it leave the old
\* block's elements as they were.
C6_SetIsolates ==
    [][\A x \in Handles :
          /\ SetWrites(x) =>
                /\ elements'[header[x]] = [call[x].pre EXCEPT ![call[x].i] = call[x].v]
                /\ elements'[header[x]][call[x].i] = call[x].v
                /\ Len(call[x].pre) = size[header[x]]
                /\ \A b \in Blocks \ {header[x]} : elements'[b] = elements[b]
                /\ \A a \in Handles \ {x} : Readable(a) => header[a] # header[x]
                /\ call[x].p # header[x]
          /\ (call[x].pc \in {"mod_alloc", "mod_release"} /\ Stepped(x)) =>
                /\ elements'[header[x]] = elements[header[x]]
                /\ call[x].i # 0 => elements[header[x]] = call[x].pre]_vars

\* set() on a copy x of handle a has unshared a block of two elements, one
\* of them not the default, and is about to write: x's new block and a's
\* block hold the same elements.
C6_Witness ==
    \E x, a \in Handles :
        /\ x # a
        /\ call[x].pc = "set_write"
        /\ call[x].p # 0
        /\ Readable(a)
        /\ header[a] = call[x].p
        /\ size[header[a]] = 2
        /\ elements[header[a]] = call[x].pre
        /\ elements[header[x]] = call[x].pre
        /\ \E j \in 1..2 : call[x].pre[j] # DefaultElement /\ j # call[x].i

\* C7: modify() (called directly or from set()) on a handle whose block
\* has refCount 1 allocates nothing: its test changes no handle and no
\* block, and when it returns the handle references the same block with
\* the same refCount, size and elements (set() then writes its element).
C7_ExclusiveModifyReuses ==
    [][\A x \in Handles :
          /\ (call[x].pc = "idle" /\ call'[x].pc \in ModifyPcs /\ refCount[header[x]] = 1) =>
                /\ call'[x].pc \in {"mod_ret", "set_write"}
                /\ call'[x].p = 0
                /\ UNCHANGED <<handleVars, blockVars>>
          /\ (call[x].pc \in {"mod_ret", "set_write"} /\ call[x].p = 0) =>
                /\ refCount[header[x]] = 1
                /\ bstate[header[x]] = "live"
          /\ (call[x].pc = "mod_ret" /\ call[x].p = 0 /\ Stepped(x)) =>
                UNCHANGED <<handleVars, blockVars>>
          /\ (call[x].pc = "set_write" /\ call[x].p = 0 /\ Stepped(x)) =>
                UNCHANGED <<handleVars, bstate, refCount, size>>]_vars

\* modify() found its block exclusively owned and is about to return,
\* although a block could have been allocated.
C7_Witness ==
    \E x \in Handles :
        /\ call[x].pc = "mod_ret"
        /\ call[x].p = 0
        /\ FreeBlocks # {}
        /\ MemoryLeft(1)
        /\ refCount[header[x]] = 1
        /\ size[header[x]] > 0

\* C8: modify() on a handle whose block X has a refCount other than 1
\* allocates a block Y with X's size, refCount 1 and X's elements, leaving
\* X as it was; then makes the handle reference Y and decrements X's
\* refCount by exactly 1 without changing X's size or elements; and
\* destroys X only if that decrement reached 0, when no usable handle
\* references X.
C8_SharedModifyCopies ==
    [][\A x \in Handles :
          /\ (call[x].pc = "idle" /\ call'[x].pc \in ModifyPcs /\ refCount[header[x]] # 1) =>
                /\ call'[x].pc = "mod_alloc"
                /\ UNCHANGED <<handleVars, blockVars>>
          /\ (call[x].pc = "mod_alloc" /\ call'[x].pc = "mod_release") =>
                LET X == header[x]
                    Y == call'[x].p
                IN /\ bstate[Y] = "free" /\ bstate'[Y] = "live"
                   /\ size'[Y] = size[X]
                   /\ refCount'[Y] = 1
                   /\ elements'[Y] = elements[X]
                   /\ \A b \in Blocks \ {Y} :
                         /\ bstate'[b] = bstate[b] /\ refCount'[b] = refCount[b]
                         /\ size'[b] = size[b] /\ elements'[b] = elements[b]
                   /\ header' = header
          /\ (call[x].pc = "mod_release" /\ Stepped(x)) =>
                LET X == header[x]
                    Y == call[x].p
                IN /\ header'[x] = Y
                   /\ refCount'[X] = refCount[X] - 1
                   /\ \A b \in Blocks \ {X} : refCount'[b] = refCount[b]
                   /\ refCount'[Y] = 1
                   /\ elements[Y] = elements[X]
                   /\ UNCHANGED <<bstate, size, elements>>
                   /\ (call'[x].pc = "mod_destroy") = (refCount'[X] = 0)
          /\ (call[x].pc = "mod_destroy" /\ Stepped(x)) =>
                /\ refCount[call[x].p] = 0
                /\ \A a \in Handles : Readable(a) => header[a] # call[x].p]_vars

\* modify() on x has unshared block p, which handle a still shows: the new
\* block has refCount 1 and p's size and elements, p has lost one reference.
C8_Witness ==
    \E x, a \in Handles :
        /\ x # a
        /\ call[x].pc = "mod_ret"
        /\ call[x].p # 0
        /\ Readable(a)
        /\ header[a] = call[x].p
        /\ bstate[call[x].p] = "live"
        /\ refCount[call[x].p] = 1
        /\ refCount[header[x]] = 1
        /\ size[header[x]] = 2
        /\ elements[header[x]] = elements[call[x].p]
        /\ \E j \in 1..2 : elements[header[x]][j] # DefaultElement

\* C9: an assignment whose two sides reference the same block (h = h, two
\* handles sharing a block, or two invalid handles) only compares and
\* returns: none of its steps changes a handle, a refCount or a block.
C9_SameBlockAssignIsNoOp ==
    [][\A x \in Handles :
          /\ (call[x].pc = "idle" /\ call'[x].pc \in AssignPcs
                /\ header[x] = header[call'[x].s]) =>
                /\ call'[x].pc = "assign_same"
                /\ UNCHANGED <<handleVars, blockVars>>
          /\ (call[x].pc = "assign_same" /\ Stepped(x)) =>
                /\ call'[x].pc = "idle"
                /\ UNCHANGED <<handleVars, blockVars>>]_vars

\* A self-assignment of a block's only owner and an assignment between two
\* handles sharing another block are both returning.
C9_Witness ==
    \E x, y, z \in Handles :
        /\ y # z
        /\ call[x].pc = "assign_same" /\ call[x].s = x
        /\ header[x] # 0 /\ refCount[header[x]] = 1 /\ bstate[header[x]] = "live"
        /\ call[y].pc = "assign_same" /\ call[y].s = z
        /\ header[y] # 0 /\ header[y] = header[z] /\ refCount[header[y]] = 2

\* C10: an assignment to a handle of block X from a source of a different
\* block Y decrements X's refCount by exactly 1 and no other, destroys X
\* if and only if that left 0, then makes the handle reference Y, then
\* increments Y's refCount by exactly 1 and no other (X or Y may be null:
\* then there is no decrement, or no increment).
C10_AssignMovesOneReference ==
    [][\A x \in Handles :
          /\ (call[x].pc = "idle" /\ call'[x].pc \in AssignPcs
                /\ header[x] # header[call'[x].s]) =>
                LET X == header[x]
                IN /\ UNCHANGED <<handleVars, bstate, destroys>>
                   /\ \A b \in Blocks \ {X} : refCount'[b] = refCount[b]
                   /\ X # 0 => /\ refCount'[X] = refCount[X] - 1
                               /\ (call'[x].pc = "assign_destroy") = (refCount'[X] = 0)
                               /\ call'[x].pc \in {"assign_destroy", "assign_adopt"}
                   /\ X = 0 => call'[x].pc = "assign_adopt"
          /\ (call[x].pc = "assign_destroy" /\ Stepped(x)) =>
                /\ refCount[header[x]] = 0
                /\ bstate[header[x]] = "live"
                /\ bstate'[header[x]] = "destroyed"
                /\ \A b \in Blocks \ {header[x]} : bstate'[b] = bstate[b]
                /\ UNCHANGED <<handleVars, refCount>>
                /\ call'[x].pc = "assign_adopt"
          /\ (call[x].pc = "assign_adopt" /\ Stepped(x)) =>
                /\ header'[x] = header[call[x].s]
                /\ \A a \in Handles \ {x} : header'[a] = header[a]
                /\ UNCHANGED <<hstate, bstate, refCount>>
                /\ call'[x].pc = "assign_ref"
          /\ (call[x].pc = "assign_ref" /\ Stepped(x)) =>
                LET Y == header[x]
                IN /\ Y = header[call[x].s]
                   /\ UNCHANGED <<handleVars, bstate, destroys>>
                   /\ \A b \in Blocks \ {Y} : refCount'[b] = refCount[b]
                   /\ Y # 0 => /\ refCount'[Y] = refCount[Y] + 1
                               /\ bstate[Y] = "live"
                   /\ call'[x].pc = "idle"]_vars

\* An assignment has released and destroyed its handle's block, adopted
\* the source's block and is about to reference it.
C10_Witness ==
    \E x \in Handles :
        /\ call[x].pc = "assign_ref"
        /\ header[x] # 0
        /\ header[x] = header[call[x].s]
        /\ refCount[header[x]] = 1
        /\ \E b \in Blocks : bstate[b] = "destroyed" /\ destroys[b] = 1

\* C11: for every size n in 0..MaxSize, the construction of a handle with
\* size n gives a handle that is valid and has getSize() = n, and that is
\* the sole owner of a block allocated by this construction: the block was
\* free before, has refCount 1 and n default elements, and no other handle
\* and no running function references it.  No other block changes.
C11_SizedConstructionOwnsFreshBlock ==
    [][\A n \in 0..MaxSize, x \in Handles :
          (SizedConstruct(n) /\ x = NextHandle) =>
             /\ hstate[x] = "none" /\ hstate'[x] = "live"
             /\ IsValid(x)'
             /\ GetSize(x)' = n
             /\ bstate[header'[x]] = "free" /\ bstate'[header'[x]] = "live"
             /\ refCount'[header'[x]] = 1
             /\ GetArray(x)' = [k \in 1..n |-> DefaultElement]
             /\ \A y \in Handles \ {x} : header'[y] # header'[x]
             /\ \A y \in Handles : call'[y].p # header'[x]
             /\ \A b \in Blocks \ {header'[x]} :
                   /\ bstate'[b] = bstate[b] /\ refCount'[b] = refCount[b]
                   /\ size'[b] = size[b] /\ elements'[b] = elements[b]]_vars

\* Two handles were constructed with a size, one with size 0 and one with
\* size MaxSize; each is the only holder of its block.
C11_Witness ==
    \E x, y \in Handles :
        /\ Readable(x) /\ Readable(y)
        /\ GetSize(x) = 0 /\ GetSize(y) = MaxSize
        /\ refCount[header[x]] = 1 /\ Holders(header[x]) = {x}
        /\ refCount[header[y]] = 1 /\ Holders(header[y]) = {y}
        /\ GetArray(y) = [k \in 1..MaxSize |-> DefaultElement]

\* C12: when the allocation of the new block fails in modify() (called
\* directly or from set()) on a handle whose block is shared, the call ends
\* there and neither the failure nor the test before it changed anything:
\* the handle references the same block, no refCount, size or element
\* differs, nothing was allocated or destroyed (for set(): the handle still
\* shows the elements it showed when set() was called, and the element is
\* not written).  A modify() decrements the old block's refCount only in
\* the step after the successful allocation, when the new block exists
\* with the old block's size and elements.
C12_FailedAllocationChangesNothing ==
    [][\A x \in Handles :
          /\ (call[x].pc = "idle" /\ call'[x].pc = "mod_alloc") =>
                UNCHANGED <<handleVars, blockVars>>
          /\ (call[x].pc = "mod_alloc" /\ call'[x].pc = "idle") =>
                /\ UNCHANGED <<handleVars, blockVars>>
                /\ call[x].i # 0 => GetArray(x)' = call[x].pre
          /\ (call[x].pc = "mod_alloc" /\ Stepped(x)) =>
                /\ call'[x].pc \in {"idle", "mod_release"}
                /\ refCount'[header[x]] = refCount[header[x]]
                /\ header'[x] = header[x]
          /\ (call[x].pc \in ModifyPcs /\ Stepped(x)
                /\ \E b \in Blocks : refCount'[b] < refCount[b]) =>
                /\ call[x].pc = "mod_release"
                /\ refCount'[header[x]] < refCount[header[x]]
                /\ bstate[call[x].p] = "live"
                /\ size[call[x].p] = size[header[x]]
                /\ elements[call[x].p] = elements[header[x]]]_vars

\* set() on a handle that shares a block of two elements, one of them not
\* the default, has found the block shared and must allocate, and no
\* memory is left: the allocation can only fail.
C12_Witness ==
    \E x, a \in Handles :
        /\ x # a
        /\ call[x].pc = "mod_alloc"
        /\ call[x].i # 0
        /\ ~MemoryLeft(1)
        /\ Readable(a)
        /\ header[a] = header[x]
        /\ refCount[header[x]] = 2
        /\ GetSize(x) = 2
        /\ \E j \in 1..2 : Index(x, j) # DefaultElement

\* C13: isValid(), getSize(), const getArray() and const operator[] never
\* unshare: a call of any of them changes no handle's header pointer, no
\* block's refCount, size or elements, allocates and destroys no block and
\* leaves no function in progress, whether the handle's block is shared
\* or not.
C13_ReadsDoNotUnshare ==
    [][\A x \in Handles :
          (\/ IsValidCall(x)
           \/ GetSizeCall(x)
           \/ GetArrayCall(x)
           \/ \E i \in 1..MaxSize : IndexCall(x, i))
             => UNCHANGED <<handleVars, blockVars, call>>]_vars

\* The const accessors can be called on a handle that shares a block of
\* two elements (one of them written) with another handle, while a block
\* could still be allocated.
C13_Witness ==
    \E x, a \in Handles :
        /\ x # a
        /\ CanAccess(x) /\ ~Reading(x)
        /\ Readable(a)
        /\ header[a] = header[x]
        /\ refCount[header[x]] = 2
        /\ GetSize(x) = 2
        /\ Index(x, 2) # DefaultElement
        /\ FreeBlocks # {} /\ MemoryLeft(1)

\* C14: when modify() or set() returns on handle x, x's block has refCount
\* exactly 1, and with no function in progress x is its only holder.  As
\* long as x stays idle its block keeps refCount 1 and x keeps the block,
\* except when a copy construction or an assignment from x references the
\* block; and a modify() or set() called on a handle whose block has
\* refCount 1 allocates nothing.  So only the first write after a share
\* unshares.
C14_UnsharedUntilNextShare ==
    [][\A x \in Handles :
          /\ (call[x].pc \in {"mod_ret", "set_write"} /\ Stepped(x)) =>
                /\ call'[x].pc = "idle"
                /\ header'[x] = header[x]
                /\ refCount'[header[x]] = 1
                /\ bstate'[header[x]] = "live"
                /\ Quiescent' => Holders(header[x])' = {x}
                /\ \A a \in Handles \ {x} : Readable(a)' => header'[a] # header[x]
          /\ (Readable(x) /\ refCount[header[x]] = 1
                /\ call'[x] = call[x] /\ hstate'[x] = hstate[x]) =>
                /\ header'[x] = header[x]
                /\ bstate'[header[x]] = "live"
                /\ \/ refCount'[header[x]] = 1
                   \/ \E y \in Handles :
                         /\ call[y].pc \in {"copy_ref", "assign_ref"}
                         /\ call[y].s = x
                         /\ Stepped(y)
                         /\ refCount'[header[x]] = 2
          /\ (Readable(x) /\ refCount[header[x]] = 1 /\ call'[x].pc \in ModifyPcs) =>
                /\ call'[x].pc \in {"mod_ret", "set_write"}
                /\ call'[x].p = 0
                /\ UNCHANGED <<handleVars, blockVars>>]_vars

\* Handle 1 was constructed with block 1, handle 2 took a share of block 1
\* and still holds it, handle 1 has unshared into block 2 and written an
\* element; its next set() has found block 2 exclusively owned and is about
\* to write without having allocated, although a block could be allocated.
C14_Witness ==
    /\ Constructed = {1, 2}
    /\ Allocated = {1, 2}
    /\ Readable(2) /\ header[2] = 1
    /\ hstate[1] = "live" /\ header[1] = 2
    /\ bstate[1] = "live" /\ bstate[2] = "live"
    /\ refCount[1] = 1 /\ refCount[2] = 1
    /\ call[1].pc = "set_write" /\ call[1].p = 0
    /\ \E j \in 1..size[2] : j # call[1].i /\ elements[2][j] # elements[1][j]
    /\ FreeBlocks # {} /\ MemoryLeft(1)

\* C15: an assignment to handle x from a source s of a different block
\* runs in this order: unref() of x's block X (no step on the source's
\* block Y, x still references X); destroy(X) if the unref() reached 0
\* (x still references X, Y untouched); header = source.header (no
\* refCount changes); ref() of Y.  The source is alive and references Y
\* throughout, so when Y is ref()'d it is not destroyed and its refCount is
\* at least 1.
C15_AssignReleasesThenAdoptsThenRefs ==
    [][\A x \in Handles :
          /\ (call[x].pc = "idle" /\ call'[x].pc \in AssignPcs
                /\ header[x] # header[call'[x].s]) =>
                LET Y == header[call'[x].s]
                IN /\ call'[x].pc \in {"assign_destroy", "assign_adopt"}
                   /\ header'[x] = header[x]
                   /\ Y # 0 => refCount'[Y] = refCount[Y]
                   /\ header[x] # 0 => refCount'[header[x]] = refCount[header[x]] - 1
          /\ (call[x].pc = "assign_destroy" /\ Stepped(x)) =>
                LET Y == header[call[x].s]
                IN /\ call'[x].pc = "assign_adopt"
                   /\ header'[x] = header[x]
                   /\ header[x] # Y
                   /\ bstate'[header[x]] = "destroyed"
                   /\ Y # 0 => (refCount'[Y] = refCount[Y] /\ bstate'[Y] = "live")
          /\ (call[x].pc = "assign_adopt" /\ Stepped(x)) =>
                /\ call'[x].pc = "assign_ref"
                /\ header[x] # header[call[x].s]
                /\ header'[x] = header[call[x].s]
                /\ refCount' = refCount
          /\ (call[x].pc = "assign_ref" /\ Stepped(x)) =>
                LET Y == header[x]
                IN /\ call'[x].pc = "idle"
                   /\ hstate[call[x].s] = "live"
                   /\ header[call[x].s] = Y
                   /\ Y # 0 => /\ bstate[Y] = "live"
                               /\ refCount[Y] >= 1
                               /\ refCount'[Y] = refCount[Y] + 1
                               /\ bstate'[Y] = "live"]_vars

\* An assignment to x has released x's block, which it owned alone, and
\* destroyed it; x still references the destroyed block and has not yet
\* adopted the source's block, which the source shares with a third handle.
C15_Witness ==
    \E x, s, a \in Handles :
        /\ x # s /\ a # s /\ a # x
        /\ call[x].pc = "assign_adopt" /\ call[x].s = s
        /\ header[x] # 0
        /\ bstate[header[x]] = "destroyed" /\ destroys[header[x]] = 1
        /\ hstate[s] = "live" /\ header[s] # 0 /\ header[s] # header[x]
        /\ Readable(a) /\ header[a] = header[s]
        /\ refCount[header[s]] = 2

\* C16: invalid handles touch no reference count.  A default-constructed
\* handle is invalid and its construction changes no block.  A copy
\* construction from an invalid handle gives an invalid handle and changes
\* no block.  The destructor of an invalid handle changes no block and
\* destroys nothing.  An assignment of an invalid source to a valid handle
\* decrements the refCount of the handle's block by 1 and no other,
\* destroys the block exactly if that reached 0, and then leaves the
\* handle invalid with no refCount incremented.
C16_InvalidHandlesTouchNoCount ==
    [][\A x \in Handles :
          /\ (DefaultConstruct /\ x = NextHandle) =>
                /\ hstate'[x] = "live"
                /\ ~IsValid(x)'
                /\ UNCHANGED blockVars
          /\ \A s \in Handles :
                (CopyConstruct(s) /\ x = NextHandle /\ ~IsValid(s)) =>
                   /\ ~IsValid(x)'
                   /\ call'[x].pc = "copy_ref"
                   /\ UNCHANGED blockVars
          /\ (call[x].pc = "copy_ref" /\ Stepped(x) /\ ~IsValid(call[x].s)) =>
                /\ hstate'[x] = "live"
                /\ ~IsValid(x)'
                /\ call'[x].pc = "idle"
                /\ UNCHANGED blockVars
          /\ (DtorBegin(x) /\ ~IsValid(x)) =>
                /\ hstate'[x] = "dead"
                /\ call'[x].pc = "idle"
                /\ UNCHANGED blockVars
          /\ \A s \in Handles :
                (AssignBegin(x, s) /\ IsValid(x) /\ ~IsValid(s)) =>
                   /\ refCount'[header[x]] = refCount[header[x]] - 1
                   /\ \A b \in Blocks \ {header[x]} : refCount'[b] = refCount[b]
                   /\ call'[x].pc =
                         IF refCount'[header[x]] = 0 THEN "assign_destroy" ELSE "assign_adopt"
                   /\ UNCHANGED <<handleVars, bstate>>
          /\ (call[x].pc \in {"assign_destroy", "assign_adopt", "assign_ref"}
                /\ Stepped(x) /\ ~IsValid(call[x].s)) =>
                /\ refCount' = refCount
                /\ call[x].pc = "assign_destroy" =>
                      (refCount[header[x]] = 0 /\ bstate'[header[x]] = "destroyed")
                /\ call[x].pc # "assign_destroy" => bstate' = bstate
                /\ call[x].pc # "assign_destroy" => ~IsValid(x)'
                /\ call[x].pc = "assign_ref" => call'[x].pc = "idle"]_vars

\* An assignment of an invalid source to x, which was valid and the only
\* owner of its block, has destroyed the block, made x invalid and is about
\* to return; a third handle, copied from the invalid source, has been
\* destroyed.
C16_Witness ==
    \E x, s, a \in Handles :
        /\ x # s /\ a # s /\ a # x
        /\ call[x].pc = "assign_ref" /\ call[x].s = s
        /\ ~IsValid(x)
        /\ hstate[s] = "live" /\ ~IsValid(s)
        /\ hstate[a] = "dead" /\ ~IsValid(a)
        /\ \E b \in Blocks : bstate[b] = "destroyed" /\ destroys[b] = 1 /\ refCount[b] = 0

\* The step executes ref() or unref() on block b: it changes the refCount
\* of a block that is already allocated (Header::Header, which sets the
\* count of a block being allocated, is neither).
CountStepped(b) == bstate[b] # "free" /\ refCount'[b] # refCount[b]

\* C17 as stated: every block that has not been destroyed has
\* refCount >= 1, and neither unref() nor ref() is executed on a block
\* whose refCount is 0.
C17_UndestroyedBlocksAreReferenced ==
    /\ [](\A b \in Blocks : bstate[b] = "live" => refCount[b] >= 1)
    /\ [][\A b \in Blocks : CountStepped(b) => refCount[b] >= 1]_vars

\* C17 amended: the counter never wraps.  Every block that has not been
\* destroyed has refCount >= 1, except an orphaned block: one whose count
\* the last unref() has taken to 0 and which the caller of that unref() is
\* about to destroy.  unref() and ref() are executed only on a block that
\* is not destroyed and has refCount >= 1, change the count by exactly 1,
\* and the count never leaves 0..MaxHandles.
C17_CounterNeverWraps ==
    /\ [](\A b \in Blocks :
            /\ refCount[b] \in 0..MaxHandles
            /\ bstate[b] = "live" => (refCount[b] >= 1 \/ DestroyPending(b))
            /\ (bstate[b] = "live" /\ refCount[b] = 0) => (orphaned[b] = 1 /\ destroys[b] = 0))
    /\ [][\A b \in Blocks :
            CountStepped(b) =>
               /\ refCount[b] >= 1
               /\ bstate[b] = "live"
               /\ refCount'[b] \in {refCount[b] - 1, refCount[b] + 1}
               /\ refCount'[b] >= 0]_vars

\* A destructor's unref() has taken a block's count to 0 and its destroy()
\* has not run yet, while another block is shared by two handles.
C17_Witness ==
    \E b, c \in Blocks :
        /\ bstate[b] = "live" /\ refCount[b] = 0
        /\ \E x \in Handles : call[x].pc = "dtor_destroy" /\ header[x] = b
        /\ bstate[c] = "live" /\ refCount[c] = 2 /\ Cardinality(Holders(c)) = 2

\* Handle x is inside modify() (called directly or from set()).
InModify(x) == call[x].pc \in ModifyPcs
\* The block x referenced when its modify() was entered.
OldBlock(x) ==
    IF call[x].pc \in {"mod_destroy", "mod_ret", "set_write"} /\ call[x].p # 0
       THEN call[x].p
       ELSE header[x]
\* x's modify() has finished with the old block: it has returned from its
\* copy-and-release, or found the block exclusively owned.
PastRelease(x) == call[x].pc \in {"mod_destroy", "mod_ret", "set_write"}

\* C18: while two handles x and y that aliased the same block X are both
\* inside modify(), in every interleaving: X is orphaned at most once and
\* destroyed at most once; X is not destroyed while either call has still
\* to copy from it or to release it; X with refCount 0 is about to be
\* destroyed by the call whose unref() returned true (it is not leaked);
\* and each call that is past its release leaves its handle on a block
\* that is not destroyed, has refCount 1 and is referenced by no other
\* usable handle.  In every state a block that is allocated and not
\* destroyed is referenced by a handle or by a running call.
C18_RaceKeepsOwnership ==
    /\ \A x, y \in Handles :
          (x # y /\ InModify(x) /\ InModify(y) /\ OldBlock(x) = OldBlock(y)) =>
             LET X == OldBlock(x)
             IN /\ orphaned[X] <= 1
                /\ destroys[X] <= orphaned[X]
                /\ ~PastRelease(x) => (bstate[X] = "live" /\ refCount[X] >= 1)
                /\ bstate[X] = "destroyed" => (PastRelease(x) /\ PastRelease(y))
                /\ (bstate[X] = "live" /\ refCount[X] = 0) => DestroyPending(X)
                /\ PastRelease(x) =>
                      /\ bstate[header[x]] = "live"
                      /\ refCount[header[x]] = 1
                      /\ header[x] # header[y]
                      /\ \A a \in Handles \ {x} : Readable(a) => header[a] # header[x]
    /\ \A b \in Blocks :
          bstate[b] = "live" =>
             \E x \in Handles :
                \/ hstate[x] \in {"live", "constructing"} /\ header[x] = b
                \/ call[x].p = b

\* Both handles found block X shared with refCount 2, both copied it, both
\* released it; the second release orphaned X and X is destroyed.  Each
\* handle is about to return from modify() on its own block.
C18_Witness ==
    \E x, y \in Handles :
        /\ x # y
        /\ call[x].pc = "mod_ret" /\ call[y].pc = "mod_ret"
        /\ call[x].p # 0 /\ call[x].p = call[y].p
        /\ bstate[call[x].p] = "destroyed" /\ destroys[call[x].p] = 1
        /\ header[x] # header[y]
        /\ refCount[header[x]] = 1 /\ refCount[header[y]] = 1
        /\ size[header[x]] = 2 /\ elements[header[x]] = elements[header[y]]
        /\ \E j \in 1..2 : elements[header[x]][j] # DefaultElement

====
